---- MODULE Spec2Model ----
(***************************************************************************)
(* Model of custom_components/nicehash/common.py:                          *)
(*   - NiceHashSensorDataUpdateCoordinator (__init__, _async_update_data), *)
(*     together with the part of the inherited DataUpdateCoordinator that  *)
(*     calls _async_update_data and reacts to what it returns or raises;   *)
(*   - resolve_rig_name, a pure function over Python values.               *)
(***************************************************************************)
EXTENDS Integers, Sequences, FiniteSets, TLC

VARIABLES
    _api,           \* self._api: the API client reference (line 41)
    _fiat,          \* self._fiat: the fiat currency code (line 42)
    update_interval, \* self.update_interval of the inherited coordinator (line 38)
    args,           \* the arguments __init__ was called with
    data,           \* self.data of the inherited coordinator: the stored snapshot
    timerArmed,     \* the inherited interval timer is waiting to fire
    started,        \* number of refreshes started so far (refreshes are numbered 1, 2, ...)
    pc,             \* pc[n]: where refresh n stands in _async_update_data
    trigger,        \* trigger[n]: what started refresh n
    rigs,           \* rigs[n]: the local variable rigs of refresh n (line 48)
    elapsed,        \* elapsed[n]: time units since refresh n entered the timeout block
    before,         \* before[n]: the stored snapshot when refresh n started
    clean,          \* clean[n]: no other refresh has stored a snapshot since n started
    calls,          \* calls[n]: the API calls refresh n has made, in order
    logged,         \* logged[n]: the debug records refresh n has emitted (line 49)
    nUpdateFailed,  \* nUpdateFailed[n]: UpdateFailed exceptions raised by refresh n
    timedOut,       \* timedOut[n]: refresh n ran into the deadline of its timeout block
    okSeq,          \* the refreshes that returned normally, in completion order
    lastGood,       \* what the most recent refresh that returned normally returned
    done,           \* the most recently completed refresh and its outcome
    rig,            \* the argument of a call of resolve_rig_name
    rpc,            \* "idle": no call; "called": the call is running; "done": it is over
    result          \* what the call returned or raised

cvars == <<_api, _fiat, update_interval, args, data, timerArmed, started, pc, trigger, rigs, elapsed,
           before, clean, calls, logged, nUpdateFailed, timedOut, okSeq,
           lastGood, done>>

rvars == <<rig, rpc, result>>

vars == <<cvars, rvars>>

----------------------------------------------------------------------------
(* Bounds of the model *)

MaxRefreshes == 2

Refreshes == 1..MaxRefreshes

(* async_timeout.timeout(10), line 47 *)
TIMEOUT == 10

----------------------------------------------------------------------------
(* Python values used by the coordinator *)

None == [t |-> "None"]

(* What the remote can answer.  The answer to a call made by refresh n is    *)
(* tagged with n: two calls never return the same object.                   *)
RigsPayloads == {"r1", "r2"}
AccountPayloads == {"a1", "a2"}

RigsResults(n) == {[t |-> "rigs", of |-> n, val |-> v] : v \in RigsPayloads}

AccountResults(n, fiat) ==
    {[t |-> "account", of |-> n, fiat |-> fiat, val |-> v] : v \in AccountPayloads}

(* Exceptions a fetch can raise (all subclasses of Exception), with str(err) *)
FetchErrors ==
    { [t |-> "exc", kind |-> "ClientError", descr |-> "Cannot connect to host"],
      [t |-> "exc", kind |-> "ValueError",  descr |-> "malformed response"] }

(* What leaving the async_timeout block raises once the deadline has passed: *)
(* asyncio.TimeoutError, whose str() is empty.                              *)
TimeoutError == [t |-> "exc", kind |-> "TimeoutError", descr |-> ""]

----------------------------------------------------------------------------
(* NiceHashSensorDataUpdateCoordinator.__init__ *)

FiatNotGiven == "<not given>"

FiatArgs == {FiatNotGiven, "EUR"}

(* Variant of FiatParam: the argument is ignored. *)
FiatParam_AlwaysUSD(arg) == "USD"

(* The parameter default fiat="USD" of line 31 *)
FiatParam(arg) == IF arg = FiatNotGiven THEN "USD" ELSE arg

(* The update_interval arguments, in minutes *)
IntervalArgs == {1, 5}

(* timedelta(minutes=update_interval), line 38 *)
timedelta(minutes) == [seconds |-> 60 * minutes]

(* Variant of InitPc: construction itself starts the first refresh. *)
InitPc_StartsRefresh == [n \in Refreshes |-> IF n = 1 THEN "rigs" ELSE "idle"]

(* The state of every refresh slot after construction: __init__ only calls   *)
(* the base constructor and sets two attributes; it starts no refresh.       *)
InitPc == [n \in Refreshes |-> "idle"]

InitTrigger == [n \in Refreshes |-> "none"]

CoordinatorInit(arg, minutes) ==
    /\ args = [api |-> "api", update_interval |-> minutes, fiat |-> arg]
    /\ _api = "api"
    /\ _fiat = FiatParam(arg)
    /\ update_interval = timedelta(minutes)
    /\ data = None
    /\ timerArmed = TRUE
    /\ started = 0
    /\ pc = InitPc
    /\ trigger = InitTrigger
    /\ rigs = [n \in Refreshes |-> None]
    /\ elapsed = [n \in Refreshes |-> 0]
    /\ before = [n \in Refreshes |-> None]
    /\ clean = [n \in Refreshes |-> TRUE]
    /\ calls = [n \in Refreshes |-> <<>>]
    /\ logged = [n \in Refreshes |-> <<>>]
    /\ nUpdateFailed = [n \in Refreshes |-> 0]
    /\ timedOut = [n \in Refreshes |-> FALSE]
    /\ okSeq = <<>>
    /\ lastGood = None
    /\ done = [id |-> 0]

(* No call of resolve_rig_name is going on. *)
ResolverIdle ==
    /\ rig = None
    /\ rpc = "idle"
    /\ result = None

Init ==
    /\ \E arg \in FiatArgs, minutes \in IntervalArgs : CoordinatorInit(arg, minutes)
    /\ ResolverIdle

----------------------------------------------------------------------------
(* _async_update_data, lines 44-53 *)

InFlight(n) == pc[n] \in {"rigs", "account"}

(* Variant of Snapshot: the two results under each other's key. *)
Snapshot_Swapped(r, a) == [t |-> "dict", rigs |-> a, account |-> r]

(* return {RIGS_OBJ: rigs, ACCOUNT_OBJ: account}, line 51 *)
Snapshot(r, a) == [t |-> "dict", rigs |-> r, account |-> a]

(* f"Error communicating with API: {err}", line 53: the parts of the f-string *)
Message(err) == <<"Error communicating with API: ", err.descr>>

(* raise UpdateFailed(...) from err, line 53 *)
UpdateFailed(err) ==
    [t |-> "exc", kind |-> "UpdateFailed", msg |-> Message(err), cause |-> err]

(* Variant of ExceptHandler: the error is swallowed, the method returns None. *)
ExceptHandler_Swallows(err) == [how |-> "return", value |-> None]

(* Variant of ExceptHandler: the original error is raised again, unwrapped. *)
ExceptHandler_Reraises(err) == [how |-> "raise", exc |-> err]

(* except Exception as err: ..., lines 52-53: what leaves _async_update_data *)
(* when err was raised inside the try block                               *)
ExceptHandler(err) == [how |-> "raise", exc |-> UpdateFailed(err)]

(* The normal exit of line 51 *)
Return(r, a) == [how |-> "return", value |-> Snapshot(r, a)]

(* Variant of InsideWindow: no deadline is enforced. *)
InsideWindow_NoDeadline(n) == TRUE

(* async with async_timeout.timeout(10), line 47: refresh n is still inside  *)
(* its window, so an await of it can complete.                              *)
InsideWindow(n) == elapsed[n] < TIMEOUT

(* Variant of DataAfterRigs: the rigs result is published as soon as it is   *)
(* there, next to whatever account data was stored before.                  *)
DataAfterRigs_Publishes(n, r) ==
    [t |-> "dict", rigs |-> r,
     account |-> IF data = None THEN None ELSE data.account]

(* The stored snapshot while refresh n goes on to wait for get_account_data: *)
(* line 48 binds the local name rigs and nothing else.                      *)
DataAfterRigs(n, r) == data

----------------------------------------------------------------------------
(* The inherited DataUpdateCoordinator around one call of the update method  *)
(* (update_method=self._async_update_data, line 39).                        *)

(* Variant of DataAfter: a failed refresh clears the stored snapshot. *)
DataAfter_ClearsOnFailure(o) == IF o.how = "return" THEN o.value ELSE None

(* self.data = await self._async_update_data() stores what the method        *)
(* returns; when the method raises, self.data is not assigned.              *)
DataAfter(o) == IF o.how = "return" THEN o.value ELSE data

(* Variant of TimerAfter: only a successful refresh schedules the next tick. *)
TimerAfter_OnlyOnSuccess(o) == o.how = "return"

(* After every refresh, whatever its outcome, the base class schedules the   *)
(* next interval tick.                                                      *)
TimerAfter(o) == TRUE

(* A refresh starts: the base class cancels the pending interval timer and   *)
(* calls the update method, which enters the try and timeout blocks and     *)
(* suspends in await self._api.get_rigs_data() (lines 46-48).               *)
StartRefresh(n, trig) ==
    /\ started < MaxRefreshes
    /\ n = started + 1
    /\ started' = n
    /\ timerArmed' = FALSE
    /\ pc' = [pc EXCEPT ![n] = "rigs"]
    /\ trigger' = [trigger EXCEPT ![n] = trig]
    /\ elapsed' = [elapsed EXCEPT ![n] = 0]
    /\ before' = [before EXCEPT ![n] = data]
    /\ clean' = [clean EXCEPT ![n] = TRUE]
    /\ calls' = [calls EXCEPT ![n] = <<[op |-> "get_rigs_data"]>>]
    /\ UNCHANGED <<_api, _fiat, update_interval, args, data, rigs, logged,
                   nUpdateFailed, timedOut,
                   okSeq, lastGood, done, rvars>>

(* The interval timer set up with update_interval (lines 34-40) fires. *)
Tick ==
    /\ timerArmed
    /\ StartRefresh(started + 1, "tick")

(* A caller asks for a refresh now.  Nothing in common.py holds a lock or an *)
(* in-flight flag, so the request is served whether or not a refresh is      *)
(* outstanding.                                                              *)
RequestRefresh == StartRefresh(started + 1, "request")

(* Variant of CallsAtExit: the fetch that failed is called once more. *)
CallsAtExit_Retries(n, o) ==
    IF o.how = "raise" THEN Append(calls[n], calls[n][Len(calls[n])]) ELSE calls[n]

(* The API calls of refresh n when it leaves _async_update_data: neither the *)
(* return of line 51 nor the except clause of lines 52-53 calls the API.     *)
CallsAtExit(n, o) == calls[n]

(* Refresh n leaves _async_update_data with outcome o, after the fetch that  *)
(* was outstanding returned acct (None when it did not return) or raised err *)
(* (None when nothing was raised).  The base class stores the result or      *)
(* keeps the old one, and schedules the next tick.                           *)
Finish(n, o, acct, err) ==
    /\ data' = DataAfter(o)
    /\ timerArmed' = TimerAfter(o)
    /\ pc' = [pc EXCEPT ![n] = IF o.how = "return" THEN "ok" ELSE "failed"]
    /\ nUpdateFailed' =
         [nUpdateFailed EXCEPT
            ![n] = IF o.how = "raise" /\ o.exc.kind = "UpdateFailed" THEN @ + 1 ELSE @]
    /\ timedOut' = [timedOut EXCEPT ![n] = (err = TimeoutError)]
    /\ okSeq' = IF o.how = "return" THEN Append(okSeq, n) ELSE okSeq
    /\ lastGood' = IF o.how = "return" THEN o.value ELSE lastGood
    /\ done' = [id      |-> n,
                outcome |-> o,
                err     |-> err,
                got     |-> [rigs |-> rigs[n], account |-> acct],
                late    |-> (elapsed[n] >= TIMEOUT),
                clean   |-> clean[n],
                before  |-> IF err = None THEN None ELSE before[n],
                prev    |-> IF err = None THEN None ELSE data]
    /\ clean' = [m \in Refreshes |->
                   IF m = n THEN TRUE
                   ELSE IF InFlight(m) /\ data' # data THEN FALSE
                   ELSE clean[m]]
    /\ before' = [before EXCEPT ![n] = None]
    /\ rigs' = [rigs EXCEPT ![n] = None]
    /\ elapsed' = [elapsed EXCEPT ![n] = 0]
    /\ calls' = [calls EXCEPT ![n] = CallsAtExit(n, o)]
    /\ UNCHANGED <<_api, _fiat, update_interval, args, started, trigger, logged, rvars>>

(* Variant of Debug: nothing is logged. *)
Debug_Silent(n, r) == logged[n]

(* _LOGGER.debug(f"API Rigs response: {rigs}"), line 49: the debug records   *)
(* of refresh n once it has logged r                                         *)
Debug(n, r) == Append(logged[n], r)

(* await self._api.get_rigs_data() returns r inside the window: line 48      *)
(* binds rigs, line 49 logs it, line 50 calls get_account_data(self._fiat).  *)
RigsReturn(n) ==
    /\ pc[n] = "rigs"
    /\ InsideWindow(n)
    /\ \E r \in RigsResults(n) :
         /\ rigs' = [rigs EXCEPT ![n] = r]
         /\ logged' = [logged EXCEPT ![n] = Debug(n, r)]
         /\ data' = DataAfterRigs(n, r)
    /\ calls' = [calls EXCEPT
                   ![n] = Append(@, [op |-> "get_account_data", arg |-> _fiat])]
    /\ pc' = [pc EXCEPT ![n] = "account"]
    /\ UNCHANGED <<_api, _fiat, update_interval, args, timerArmed, started,
                   trigger, elapsed, before,
                   clean, nUpdateFailed, timedOut, okSeq, lastGood, done, rvars>>

(* await self._api.get_account_data(self._fiat) returns a inside the window: *)
(* line 51 returns the dict.                                                 *)
AccountReturn(n) ==
    /\ pc[n] = "account"
    /\ InsideWindow(n)
    /\ \E a \in AccountResults(n, _fiat) : Finish(n, Return(rigs[n], a), a, None)

(* The outstanding fetch raises: lines 52-53. *)
FetchRaises(n) ==
    /\ InFlight(n)
    /\ \E e \in FetchErrors : Finish(n, ExceptHandler(e), None, e)

(* The 10 units are over while a fetch is outstanding: the await is          *)
(* cancelled, the timeout block raises TimeoutError, lines 52-53 catch it.   *)
TimeoutExpires(n) ==
    /\ InFlight(n)
    /\ ~InsideWindow(n)
    /\ Finish(n, ExceptHandler(TimeoutError), None, TimeoutError)

(* One time unit passes for every refresh that is inside its timeout block. *)
Advance ==
    /\ \E n \in Refreshes : InFlight(n)
    /\ \A n \in Refreshes : InFlight(n) => elapsed[n] < TIMEOUT
    /\ elapsed' = [n \in Refreshes |-> IF InFlight(n) THEN elapsed[n] + 1 ELSE elapsed[n]]
    /\ UNCHANGED <<_api, _fiat, update_interval, args, data, timerArmed,
                   started, pc, trigger, rigs,
                   before, clean, calls, logged, nUpdateFailed, timedOut, okSeq,
                   lastGood, done, rvars>>

Next ==
    \/ Tick
    \/ RequestRefresh
    \/ \E n \in Refreshes : RigsReturn(n)
    \/ \E n \in Refreshes : AccountReturn(n)
    \/ \E n \in Refreshes : FetchRaises(n)
    \/ \E n \in Refreshes : TimeoutExpires(n)
    \/ Advance

Spec == Init /\ [][Next]_vars

(* The interval timer, once armed, does fire. *)
FairSpec == Spec /\ WF_vars(Tick)

(* Time passes, and the deadline of a timeout block that has been reached    *)
(* takes effect: the event loop runs the timeout handle of line 47, which    *)
(* cancels the outstanding await.  Whether the remote answers is left open.  *)
LiveInit ==
    /\ CoordinatorInit(FiatNotGiven, 5)
    /\ ResolverIdle

(* A step of the event loop's clock: a time unit passes, or a deadline that  *)
(* has been reached takes effect.                                            *)
Clock == Advance \/ \E n \in Refreshes : TimeoutExpires(n)

LiveSpec ==
    /\ LiveInit
    /\ [][Next]_vars
    /\ WF_vars(Clock)

----------------------------------------------------------------------------
(* Python values, as far as resolve_rig_name meets them.  A str is the       *)
(* sequence of its characters.                                              *)

Str(s) == [t |-> "str", s |-> s]
PyInt(n) == [t |-> "int", n |-> n]
Dict(d) == [t |-> "dict", d |-> d]
List(l) == [t |-> "list", l |-> l]

(* A raised exception, in the place of the value of an expression *)
Raise(kind) == [t |-> "raise", kind |-> kind]

IsRaise(v) == v.t = "raise"

EmptyDict == Dict([k \in {} |-> None])
EmptyList == List(<<>>)

Min(S) == CHOOSE x \in S : \A y \in S : x <= y
Max(S) == CHOOSE x \in S : \A y \in S : y <= x

(* bool(v) *)
Truthy(v) ==
    CASE v.t = "None" -> FALSE
      [] v.t = "str"  -> Len(v.s) > 0
      [] v.t = "int"  -> v.n # 0
      [] v.t = "dict" -> DOMAIN v.d # {}
      [] v.t = "list" -> Len(v.l) > 0

(* v or w; an exception raised while evaluating v goes through *)
Or(v, w) == IF IsRaise(v) THEN v ELSE IF Truthy(v) THEN v ELSE w

(* v.get(key): only a dict has the method *)
get(v, key) ==
    IF IsRaise(v) THEN v
    ELSE IF v.t = "dict" THEN (IF key \in DOMAIN v.d THEN v.d[key] ELSE None)
    ELSE Raise("AttributeError")

(* v.get(key, default) *)
get_default(v, key, default) ==
    IF IsRaise(v) THEN v
    ELSE IF v.t = "dict" THEN (IF key \in DOMAIN v.d THEN v.d[key] ELSE default)
    ELSE Raise("AttributeError")

RECURSIVE SetToSeq(_)
SetToSeq(S) ==
    IF S = {} THEN <<>>
    ELSE LET x == CHOOSE x \in S : TRUE IN <<x>> \o SetToSeq(S \ {x})

(* for x in v: the items the loop visits, or the exception iter(v) raises.   *)
(* A list gives its entries, a str its characters, a dict its keys.          *)
Iter(v) ==
    IF IsRaise(v) THEN [exc |-> v, items |-> <<>>]
    ELSE CASE v.t = "list" -> [exc |-> None, items |-> v.l]
           [] v.t = "str"  -> [exc |-> None,
                               items |-> [i \in 1..Len(v.s) |-> Str(<<v.s[i]>>)]]
           [] v.t = "dict" -> LET ks == SetToSeq(DOMAIN v.d)
                              IN [exc |-> None,
                                  items |-> [i \in 1..Len(ks) |-> Str(<<ks[i]>>)]]
           [] OTHER        -> [exc |-> Raise("TypeError"), items |-> <<>>]

(* A list comprehension or an append: the values, or the first exception *)
Values(vals) ==
    LET bad == {i \in 1..Len(vals) : IsRaise(vals[i])}
    IN IF bad = {} THEN [exc |-> None, items |-> vals]
       ELSE [exc |-> vals[Min(bad)], items |-> <<>>]

(* A for loop that appends: vals are the values its body gives for the      *)
(* items in turn; the exception of the iteration or the first one of a body  *)
(* ends it.                                                                  *)
ForEach(it, vals) == IF it.exc # None THEN it ELSE Values(vals)

(* str.strip() *)
Whitespace == {" ", "\t", "\n"}

strip(s) ==
    LET keep == {i \in 1..Len(s) : s[i] \notin Whitespace}
    IN IF keep = {} THEN <<>> ELSE SubSeq(s, Min(keep), Max(keep))

(* str.upper() *)
LowerCase == <<"a", "b", "c", "d", "e", "f", "g", "h", "i", "j", "k", "l", "m", "n", "o", "p", "q", "r", "s", "t", "u", "v", "w", "x", "y", "z">>
UpperCase == <<"A", "B", "C", "D", "E", "F", "G", "H", "I", "J", "K", "L", "M", "N", "O", "P", "Q", "R", "S", "T", "U", "V", "W", "X", "Y", "Z">>

upper(s) ==
    [i \in 1..Len(s) |->
        IF \E j \in 1..Len(LowerCase) : LowerCase[j] = s[i]
        THEN UpperCase[CHOOSE j \in 1..Len(LowerCase) : LowerCase[j] = s[i]]
        ELSE s[i]]

----------------------------------------------------------------------------
(* resolve_rig_name, lines 56-111 *)

(* line 18 *)
PLACEHOLDER_RIG_NAMES == {<<"_", "_", "D", "E", "F", "A", "U", "L", "T", "_", "_">>,
                          <<"-", " ", "U", "N", "M", "A", "N", "A", "G", "E", "D", " ", "-">>,
                          <<"U", "N", "M", "A", "N", "A", "G", "E", "D">>}

(* line 62 *)
placeholder_tokens == {upper(token) : token \in PLACEHOLDER_RIG_NAMES}

(* lines 64-72 *)
_normalize(value) ==
    IF value.t # "str" THEN None
    ELSE LET name == strip(value.s)
         IN IF Len(name) = 0 THEN None
            ELSE IF upper(name) \in placeholder_tokens THEN None
            ELSE Str(name)

(* lines 74-82 *)
keys == <<"name", "displayName", "rigDisplayName", "label", "worker", "rigName",
          "groupName">>

(* Variant of GroupCandidates: the keys of group are read without looking    *)
(* at what group is.                                                         *)
GroupCandidates_Unguarded(group) ==
    Values([i \in 1..Len(keys) |-> get(group, keys[i])])

(* candidates.extend(group.get(key) for key in keys if isinstance(group,     *)
(* dict)), line 91                                                           *)
GroupCandidates(group) ==
    IF group.t = "dict"
    THEN Values([i \in 1..Len(keys) |-> get(group, keys[i])])
    ELSE Values(<<>>)

(* Variant of SecondGroupNameProbe: the probe reads a key that is not among  *)
(* the candidates before it.                                                 *)
SecondGroupNameProbe_ReadsRigId(r) == Values(<<get(r, "rigId")>>)

(* candidates.append(rig.get("groupName")), line 92 *)
SecondGroupNameProbe(r) == Values(<<get(r, "groupName")>>)

(* lines 84-104: the statements that build candidates, in program order;     *)
(* each gives the values it appends or the exception it raises.              *)
CandidateSteps(r) ==
    LET metadata == Or(get(r, "metadata"), EmptyDict)
        group == Or(get(r, "group"), EmptyDict)
        v4 == Or(get(r, "v4"), EmptyDict)
        mmv == Or(get(v4, "mmv"), EmptyDict)
        DsvName(device) == get(Or(get(device, "dsv"), EmptyDict), "name")
        OsValue(os_value) == get(os_value, "value")
        DeviceName(device) == get(device, "name")
        osv == Iter(Or(get(v4, "osv"), EmptyList))
        v4devices == Iter(Or(get(v4, "devices"), EmptyList))
        devices == Iter(get_default(r, "devices", EmptyList))
    IN << Values(<<metadata, group, v4, mmv>>),
          Values([i \in 1..Len(keys) |-> get(r, keys[i])]),
          Values([i \in 1..Len(keys) |-> get(metadata, keys[i])]),
          GroupCandidates(group),
          SecondGroupNameProbe(r),
          Values(<<get(mmv, "workerName")>>),
          ForEach(osv, [i \in 1..Len(osv.items) |-> OsValue(osv.items[i])]),
          ForEach(v4devices, [i \in 1..Len(v4devices.items) |-> DsvName(v4devices.items[i])]),
          ForEach(devices, [i \in 1..Len(devices.items) |-> DeviceName(devices.items[i])]) >>

RECURSIVE Concat(_)
Concat(seqs) == IF seqs = <<>> THEN <<>> ELSE Head(seqs) \o Concat(Tail(seqs))

(* What the statements of lines 89-104 have put into candidates *)
CandidatesOf(steps) ==
    Concat(SubSeq([i \in 1..Len(steps) |-> steps[i].items], 2, Len(steps)))

(* The list candidates when line 106 is reached *)
candidates(r) == CandidatesOf(CandidateSteps(r))

(* The statements of lines 84-104 raise, or lines 106-111 pick the result:   *)
(* the first candidate _normalize accepts, else rig.get("rigId").            *)
Select(r, steps) ==
    LET bad == {i \in 1..Len(steps) : steps[i].exc # None}
    IN IF bad # {} THEN steps[Min(bad)].exc
       ELSE LET cs == CandidatesOf(steps)
                hit == {i \in 1..Len(cs) : Truthy(_normalize(cs[i]))}
            IN IF hit # {} THEN _normalize(cs[Min(hit)])
               ELSE get(r, "rigId")

(* lines 56-111 *)
resolve_rig_name(r) ==
    IF ~Truthy(r) THEN None ELSE Select(r, CandidateSteps(r))

----------------------------------------------------------------------------
(* The rig records resolve_rig_name is called with: the empty record with    *)
(* up to two candidate fields set, a rigId, and at most one section or entry *)
(* given a value of some kind; and None.                                     *)

MaxEntries == 2

Absent == [t |-> "absent"]

KeySet == {keys[i] : i \in 1..Len(keys)}

KeyIndex(k) == CHOOSE i \in 1..Len(keys) : keys[i] = k

(* The places a candidate is read from *)
Slots ==
    {[loc |-> l, key |-> k, idx |-> 0] : l \in {"top", "metadata", "group"}, k \in KeySet}
    \cup {[loc |-> "mmv", key |-> "workerName", idx |-> 0]}
    \cup {[loc |-> "osv", key |-> "value", idx |-> i] : i \in 1..MaxEntries}
    \cup {[loc |-> "v4devices", key |-> "name", idx |-> i] : i \in 1..MaxEntries}
    \cup {[loc |-> "devices", key |-> "name", idx |-> i] : i \in 1..MaxEntries}

Digits == <<"1", "2", "3", "4", "5", "6", "7", "8", "9">>

LocLetter ==
    [top |-> "t", metadata |-> "m", group |-> "g", mmv |-> "w", osv |-> "o",
     v4devices |-> "d", devices |-> "e"]

(* A meaningful name, different for every slot, with white space around it *)
GoodName(sl) ==
    Str(<<" ", LocLetter[sl.loc],
          Digits[IF sl.key \in KeySet THEN KeyIndex(sl.key) ELSE Max({sl.idx, 1})], "\t">>)

(* Values that are no name: placeholders in other letter case, blanks, and   *)
(* values that are not strings                                               *)
SkipValues ==
    { Str(<<" ", " ", "_", "_", "d", "e", "f", "a", "u", "l", "t", "_", "_", " ">>),
      Str(<<"-", " ", "U", "n", "m", "a", "n", "a", "g", "e", "d", " ", "-">>),
      Str(<<"u", "n", "M", "a", "n", "a", "g", "e", "d", "\t">>),
      Str(<<" ", "\t">>),
      None,
      PyInt(5) }

NoEdit == [slot |-> Absent, val |-> Absent]

GoodEdits == {[slot |-> sl, val |-> GoodName(sl)] : sl \in Slots}

SkipEdits == {[slot |-> sl, val |-> v] : sl \in Slots, v \in SkipValues}

(* Sections and entries that can be given a value of the wrong kind; an     *)
(* entry is the first one of its sequence.                                   *)
ShapePlaces ==
    {"metadata", "group", "v4", "mmv", "osv", "v4devices", "devices",
     "osv_entry", "v4devices_entry", "dsv", "devices_entry"}

ShapeValues ==
    { None, Str(<<"x", "y">>), List(<<None>>), Dict("zz" :> None), PyInt(3) }

RigIdValues ==
    { Str(<<" ", "i", "d", "7", " ">>), PyInt(7), Str(<<"U", "N", "M", "A", "N", "A", "G", "E", "D">>), None }

PlaceEdits ==
    {[place |-> pl, val |-> v] : pl \in ShapePlaces, v \in ShapeValues}
    \cup {[place |-> "rigId", val |-> v] : v \in RigIdValues}

NoPlace == [place |-> "none", val |-> Absent]

(* The rigId set next to a candidate field and a place *)
RigIdSlot == [loc |-> "rigId", key |-> "rigId", idx |-> 0]

RigIdEdits == {[slot |-> RigIdSlot, val |-> v] : v \in RigIdValues \ {None}}

(* Two places of the wrong kind that go with two candidate fields *)
WrongKindEdits ==
    { [place |-> "devices", val |-> None],
      [place |-> "metadata", val |-> Str(<<"x", "y">>)] }

(* Two candidate fields; or one candidate field and one place; or one of the *)
(* places in wrong, of the wrong kind, next to a value that is no name and a *)
(* name or a rigId                                                           *)
Plans(wrong) ==
    {<<e1, e2, NoPlace>> : e1 \in GoodEdits \cup SkipEdits \cup {NoEdit},
                           e2 \in GoodEdits \cup {NoEdit}}
    \cup {<<e1, NoEdit, e3>> : e1 \in GoodEdits \cup SkipEdits \cup {NoEdit},
                               e3 \in PlaceEdits}
    \cup {<<e1, e2, e3>> : e1 \in SkipEdits, e2 \in GoodEdits, e3 \in wrong}
    \cup {<<e1, e2, e3>> : e1 \in SkipEdits \cup {NoEdit}, e2 \in RigIdEdits,
                           e3 \in wrong}

(* The dict of the keys of f that are present *)
MkDict(f) == Dict([k \in {x \in DOMAIN f : f[x] # Absent} |-> f[k]])

(* A section: the value given to it, else what its fields make, else absent *)
Section(given, made) ==
    IF given # Absent THEN given
    ELSE IF made = EmptyDict \/ made = EmptyList THEN Absent
    ELSE made

(* The rig record a plan describes *)
Build(plan) ==
    LET Cand(sl) == IF plan[1].slot = sl THEN plan[1].val
                    ELSE IF plan[2].slot = sl THEN plan[2].val
                    ELSE Absent
        Given(pl) == IF plan[3].place = pl THEN plan[3].val ELSE Absent
        At(l, k, i) == Cand([loc |-> l, key |-> k, idx |-> i])
        Count(l, k, entry) ==
            Max({0} \cup {i \in 1..MaxEntries : At(l, k, i) # Absent}
                    \cup {i \in {1} : Given(entry) # Absent})
        Entries(l, k, entry, Made(_)) ==
            List([i \in 1..Count(l, k, entry) |->
                    IF i = 1 /\ Given(entry) # Absent THEN Given(entry) ELSE Made(i)])
        OsvEntry(i) == MkDict("value" :> At("osv", "value", i))
        Dsv(i) == IF i = 1 /\ Given("dsv") # Absent THEN Given("dsv")
                  ELSE Section(Absent, MkDict("name" :> At("v4devices", "name", i)))
        V4DeviceEntry(i) == MkDict("dsv" :> Dsv(i))
        DeviceEntry(i) == MkDict("name" :> At("devices", "name", i))
        NeedV4Devices ==
            IF Given("dsv") # Absent /\ Given("v4devices_entry") = Absent THEN 1 ELSE 0
        v4devices ==
            List([i \in 1..Max({Count("v4devices", "name", "v4devices_entry"),
                                NeedV4Devices}) |->
                    IF i = 1 /\ Given("v4devices_entry") # Absent
                    THEN Given("v4devices_entry") ELSE V4DeviceEntry(i)])
        v4 == MkDict(
                 ("mmv" :> Section(Given("mmv"),
                                   MkDict("workerName" :> At("mmv", "workerName", 0))))
              @@ ("osv" :> Section(Given("osv"),
                                   Entries("osv", "value", "osv_entry", OsvEntry)))
              @@ ("devices" :> Section(Given("v4devices"), v4devices)))
    IN MkDict(
          [k \in KeySet |-> At("top", k, 0)]
       @@ ("metadata" :> Section(Given("metadata"),
                                 MkDict([k \in KeySet |-> At("metadata", k, 0)])))
       @@ ("group" :> Section(Given("group"),
                              MkDict([k \in KeySet |-> At("group", k, 0)])))
       @@ ("v4" :> Section(Given("v4"), v4))
       @@ ("devices" :> Section(Given("devices"),
                                Entries("devices", "name", "devices_entry", DeviceEntry)))
       @@ ("rigId" :> IF plan[2].slot = RigIdSlot THEN plan[2].val ELSE Given("rigId")))

(* The arguments of a call: None, and the records a set of plans describes *)
InputRigs(plans) == {None} \cup {Build(plan) : plan \in plans}

(* A caller passes a rig record to resolve_rig_name. *)
ResolverInit ==
    /\ CoordinatorInit(FiatNotGiven, 5)
    /\ rig \in InputRigs(Plans(WrongKindEdits))
    /\ rpc = "called"
    /\ result = None

(* The call returns or raises. *)
Resolve ==
    /\ rpc = "called"
    /\ result' = resolve_rig_name(rig)
    /\ rpc' = "done"
    /\ UNCHANGED <<rig, cvars>>

ResolverNext == Resolve

ResolverSpec == ResolverInit /\ [][ResolverNext]_vars

----------------------------------------------------------------------------
(* Properties of the coordinator *)

Completed == done.id # 0

Succeeded == Completed /\ done.outcome.how = "return"

Failed == Completed /\ done.err # None

IsSnapshot(v) ==
    /\ v.t = "dict"
    /\ DOMAIN v = {"t", "rigs", "account"}
    /\ v.rigs.t = "rigs"
    /\ v.account.t = "account"

(* C1: a refresh whose two fetches both complete inside the timeout window   *)
(* ends in success, and the stored snapshot is then exactly                 *)
(* {rigs: r, account: a} for the two results r and a; nothing of the        *)
(* snapshot stored before survives.                                         *)
C1_SuccessStoresBoth ==
    Completed =>
      /\ (done.got.account # None) <=> (done.outcome.how = "return")
      /\ done.got.account # None =>
           /\ ~done.late
           /\ done.got.rigs \in RigsResults(done.id)
           /\ done.got.account \in AccountResults(done.id, _fiat)
           /\ data = [t |-> "dict", rigs |-> done.got.rigs,
                      account |-> done.got.account]

(* C1 witness: the second refresh succeeded and replaced the snapshot of the *)
(* first.                                                                    *)
C1_Witness ==
    /\ Succeeded
    /\ okSeq = <<1, 2>>
    /\ data.rigs.of = 2
    /\ data.account.of = 2

(* C2: when a fetch raises or the window elapses, the stored snapshot after  *)
(* the refresh is the one stored before it (None stays None), and exactly    *)
(* one UpdateFailed is produced for that refresh.                            *)
C2_FailureKeepsSnapshot ==
    /\ Failed =>
         /\ data = done.prev
         /\ done.clean => data = done.before
         /\ nUpdateFailed[done.id] = 1
         /\ pc[done.id] = "failed"
    /\ \A n \in Refreshes :
         nUpdateFailed[n] = IF pc[n] = "failed" THEN 1 ELSE 0

(* C2 witness: a refresh failed after an earlier one had stored a snapshot,  *)
(* which is still the stored one.                                            *)
C2_Witness ==
    /\ Failed
    /\ done.id = 2
    /\ done.clean
    /\ done.before # None
    /\ data = done.before
    /\ nUpdateFailed[2] = 1

(* C3: in every state, also while a refresh is between its two fetches or    *)
(* has just failed, a reader sees None or one complete snapshot whose rigs   *)
(* and account come from the same refresh, a refresh that has succeeded.     *)
C3_NoPartialSnapshot ==
    data # None =>
      /\ IsSnapshot(data)
      /\ data.rigs.of = data.account.of
      /\ pc[data.rigs.of] = "ok"

(* C3 witness: refresh 2 holds its rigs result and waits for the account     *)
(* data while the complete snapshot of refresh 1 is the stored one.          *)
C3_Witness ==
    /\ pc[2] = "account"
    /\ rigs[2] # None
    /\ data # None
    /\ data.rigs.of = 1
    /\ data.account.of = 1

(* C5: every failing refresh fails with UpdateFailed, whatever was raised    *)
(* inside (a fetch error or the timeout); the UpdateFailed carries the      *)
(* original error as its cause and a message containing its description.    *)
C5_OnlyUpdateFailed ==
    /\ Failed =>
         /\ done.outcome.how = "raise"
         /\ done.outcome.exc.kind = "UpdateFailed"
         /\ done.outcome.exc.cause = done.err
         /\ \E i \in DOMAIN done.outcome.exc.msg :
               done.outcome.exc.msg[i] = done.err.descr
    /\ Completed /\ done.outcome.how = "raise" =>
         /\ done.err \in FetchErrors \cup {TimeoutError}
         /\ done.outcome.exc.kind = "UpdateFailed"

(* C5 witness: the timeout expired and what left the refresh is UpdateFailed *)
(* with the TimeoutError as its cause.                                      *)
C5_Witness ==
    /\ Failed
    /\ done.err = TimeoutError
    /\ done.outcome.exc.kind = "UpdateFailed"
    /\ done.outcome.exc.cause = TimeoutError

(* C6: when the 10-unit window expires while a fetch is outstanding, the     *)
(* fetch is abandoned and the refresh fails; no refresh completes normally   *)
(* at or after its deadline, and no result of a timed-out refresh is ever    *)
(* in the stored snapshot.                                                   *)
C6_TimeoutAbandons ==
    /\ \A n \in Refreshes :
         /\ InFlight(n) => elapsed[n] <= TIMEOUT
         /\ timedOut[n] =>
              /\ pc[n] = "failed"
              /\ nUpdateFailed[n] = 1
              /\ data # None => data.rigs.of # n /\ data.account.of # n
    /\ Completed => (done.late => done.outcome.how = "raise")
    /\ Completed /\ done.err = TimeoutError => done.late /\ data = done.prev

(* C6 witness: refresh 1 had its rigs result when the deadline passed; it    *)
(* failed and nothing of it was stored.                                     *)
C6_Witness ==
    /\ timedOut[1]
    /\ done.id = 1
    /\ done.got.rigs # None
    /\ done.late
    /\ data = None

C8_LastGoodIsStored ==
    /\ (okSeq = <<>>) <=> (data = None)
    /\ data = lastGood
    /\ okSeq # <<>> =>
         /\ IsSnapshot(data)
         /\ data.rigs.of = okSeq[Len(okSeq)]
         /\ data.account.of = okSeq[Len(okSeq)]
         /\ \A i \in 1..(Len(okSeq) - 1) : data.rigs.of # okSeq[i]

(* C8 witness: refresh 1 succeeded, refresh 2 then failed, and the snapshot  *)
(* of refresh 1 is the stored one.                                          *)
C8_Witness ==
    /\ okSeq = <<1>>
    /\ pc[2] = "failed"
    /\ data # None
    /\ data.rigs.of = 1

(* C9 as stated: once the coordinator is constructed, a first refresh has    *)
(* been started, and not by an explicit request.                            *)
C9_StartsAtCreation ==
    /\ started >= 1
    /\ trigger[1] # "request"

(* C9 as amended: construction starts no refresh; every refresh, the first   *)
(* included, is started by an interval tick or by an explicit request, and   *)
(* while no refresh has been started nothing is in flight or stored.         *)
C9_StartsOnTickOrRequest ==
    /\ \A n \in Refreshes :
         /\ pc[n] # "idle" <=> n <= started
         /\ pc[n] # "idle" <=> trigger[n] \in {"tick", "request"}
    /\ started = 0 => data = None /\ timerArmed

(* C9 witness: the first refresh was started by a tick, and after it        *)
(* completed a second tick started the next one.                            *)
C9_Witness ==
    /\ trigger[1] = "tick"
    /\ pc[1] \in {"ok", "failed"}
    /\ trigger[2] = "tick"
    /\ InFlight(2)

(* C15 as stated: every refresh that is over, successful or failed, has      *)
(* emitted exactly one debug observation of the rig-fetch result.            *)
C15_OneObservationPerRefresh ==
    \A n \in Refreshes : pc[n] \in {"ok", "failed"} => Len(logged[n]) = 1

(* The refresh n has been through line 48: get_account_data was called. *)
RigsFetched(n) ==
    \E i \in 1..Len(calls[n]) : calls[n][i].op = "get_account_data"

(* C15, amended: a refresh emits one debug observation, of its own rig-fetch *)
(* result, when get_rigs_data has returned, before get_account_data is       *)
(* called, and none when get_rigs_data fails or times out; what is logged is *)
(* what a successful refresh stores, and the step that logs stores nothing   *)
(* and ends no refresh.                                                      *)
C15_ObservationWhenRigsFetched ==
    /\ [](\A n \in Refreshes :
            /\ RigsFetched(n) => Len(logged[n]) = 1 /\ logged[n][1].of = n
            /\ ~RigsFetched(n) => logged[n] = <<>>
            /\ pc[n] = "account" => logged[n] = <<rigs[n]>>
            /\ Succeeded /\ done.id = n => done.outcome.value.rigs = logged[n][1])
    /\ [][\A n \in Refreshes :
            logged'[n] # logged[n] =>
                /\ data' = data
                /\ okSeq' = okSeq
                /\ nUpdateFailed' = nUpdateFailed
                /\ pc[n] = "rigs" /\ pc'[n] = "account"]_vars

(* One refresh failed at get_rigs_data and logged nothing; another one       *)
(* logged its rigs and failed afterwards.                                    *)
C15_Witness ==
    \E n, m \in Refreshes :
        /\ pc[n] = "failed" /\ ~RigsFetched(n) /\ logged[n] = <<>>
        /\ pc[m] = "failed" /\ RigsFetched(m) /\ Len(logged[m]) = 1

(* The calls of one operation among the calls of refresh n *)
CallsOf(n, op) == {i \in 1..Len(calls[n]) : calls[n][i].op = op}

(* C17: in one refresh get_rigs_data is called exactly once, first;          *)
(* get_account_data at most once, and only after get_rigs_data of the same   *)
(* refresh has returned; not at all when get_rigs_data failed or timed out;  *)
(* and once the refresh is over it calls nothing more: a new attempt is a    *)
(* later refresh.                                                            *)
C17_CallProtocol ==
    /\ [](\A n \in Refreshes :
            /\ n > started => calls[n] = <<>>
            /\ n <= started =>
                 /\ Cardinality(CallsOf(n, "get_rigs_data")) = 1
                 /\ calls[n][1].op = "get_rigs_data"
                 /\ Cardinality(CallsOf(n, "get_account_data")) <= 1
                 /\ Len(calls[n]) <= 2
            /\ CallsOf(n, "get_account_data") # {} <=> Len(logged[n]) = 1
            /\ pc[n] = "rigs" => CallsOf(n, "get_account_data") = {}
            /\ pc[n] = "ok" => Len(calls[n]) = 2)
    /\ [][\A n \in Refreshes :
            /\ pc[n] \in {"ok", "failed"} => calls'[n] = calls[n]
            /\ InFlight(n) /\ pc'[n] = "failed" => calls'[n] = calls[n]
            /\ calls'[n] # calls[n] /\ calls[n] # <<>> =>
                  pc[n] = "rigs" /\ pc'[n] = "account" /\ rigs'[n] \in RigsResults(n)]_vars

(* A refresh failed at get_rigs_data having made that one call, and the      *)
(* refresh after it called get_rigs_data again and went on to                *)
(* get_account_data.                                                         *)
C17_Witness ==
    \E n, m \in Refreshes :
        /\ n < m
        /\ pc[n] = "failed" /\ Len(calls[n]) = 1
        /\ Len(calls[m]) = 2

(* Refresh n is over: it returned a snapshot, or it raised UpdateFailed. *)
Over(n) ==
    \/ pc[n] = "ok" /\ nUpdateFailed[n] = 0
    \/ pc[n] = "failed" /\ nUpdateFailed[n] = 1

(* C18: no refresh stays in flight forever, also when a fetch never answers: *)
(* again and again, a refresh that has started is over, with a snapshot      *)
(* returned or UpdateFailed raised.                                          *)
C18_RefreshTerminates ==
    \A n \in Refreshes : []<>(n <= started => Over(n))

(* A refresh whose get_rigs_data never answered was ended by the deadline,   *)
(* and a later refresh is under way.                                         *)
C18_Witness ==
    \E n, m \in Refreshes :
        /\ n < m
        /\ pc[n] = "failed" /\ timedOut[n] /\ Len(calls[n]) = 1
        /\ nUpdateFailed[n] = 1
        /\ InFlight(m)

(* The currency the constructor was given, USD when it was given none *)
FiatGiven == IF args.fiat = FiatNotGiven THEN "USD" ELSE args.fiat

(* C20: the configuration is fixed after construction: no step of a refresh  *)
(* changes the fiat currency, the polling interval or the API client         *)
(* reference; they are what the constructor was given, and every             *)
(* get_account_data call is made with that currency (USD when none was       *)
(* given).                                                                   *)
C20_ConfigurationFixed ==
    /\ [](/\ _fiat = FiatGiven
          /\ _api = args.api
          /\ update_interval.seconds = 60 * args.update_interval
          /\ \A n \in Refreshes : \A i \in 1..Len(calls[n]) :
                calls[n][i].op = "get_account_data" => calls[n][i].arg = FiatGiven
          /\ IsSnapshot(data) => data.account.fiat = FiatGiven)
    /\ [][/\ _fiat' = _fiat
          /\ _api' = _api
          /\ update_interval' = update_interval
          /\ args' = args]_vars

(* Constructed with EUR: a refresh failed, a later one succeeded, and its    *)
(* account call was made with EUR.                                           *)
C20_Witness ==
    /\ args.fiat = "EUR"
    /\ \E n, m \in Refreshes :
          /\ n < m
          /\ pc[n] = "failed"
          /\ pc[m] = "ok"
          /\ calls[m][2] = [op |-> "get_account_data", arg |-> "EUR"]

(* Constructed without a currency: the account call is made with USD. *)
DefaultFiatWitness ==
    /\ args.fiat = FiatNotGiven
    /\ \E n \in Refreshes :
          pc[n] = "ok" /\ calls[n][2] = [op |-> "get_account_data", arg |-> "USD"]

----------------------------------------------------------------------------
(* Properties of resolve_rig_name *)

(* Reading a field the way the claims describe the record: a missing field,  *)
(* or a field of something that is no mapping, is null; a missing sequence   *)
(* or something that is no sequence has no entries.                          *)
Field(v, k) == IF v.t = "dict" /\ k \in DOMAIN v.d THEN v.d[k] ELSE None

EntriesOf(v) == IF v.t = "list" THEN v.l ELSE <<>>

SevenKeys == <<"name", "displayName", "rigDisplayName", "label", "worker", "rigName",
               "groupName">>

(* The candidate positions in the order C10 gives *)
ClaimedCandidates(r) ==
    LET osv == EntriesOf(Field(Field(r, "v4"), "osv"))
        v4devices == EntriesOf(Field(Field(r, "v4"), "devices"))
        devices == EntriesOf(Field(r, "devices"))
    IN [i \in 1..7 |-> Field(r, SevenKeys[i])]
       \o [i \in 1..7 |-> Field(Field(r, "metadata"), SevenKeys[i])]
       \o [i \in 1..7 |-> Field(Field(r, "group"), SevenKeys[i])]
       \o <<Field(r, "groupName")>>
       \o <<Field(Field(Field(r, "v4"), "mmv"), "workerName")>>
       \o [i \in 1..Len(osv) |-> Field(osv[i], "value")]
       \o [i \in 1..Len(v4devices) |-> Field(Field(v4devices[i], "dsv"), "name")]
       \o [i \in 1..Len(devices) |-> Field(devices[i], "name")]

(* A candidate qualifies: a string, not blank, no placeholder *)
Qualifies(v) == _normalize(v) # None

QualifyingPositions(r) ==
    {i \in 1..Len(ClaimedCandidates(r)) : Qualifies(ClaimedCandidates(r)[i])}

ReturnsFirstQualifying ==
    LET q == QualifyingPositions(rig)
    IN q # {} => result = Str(strip(ClaimedCandidates(rig)[Min(q)].s))

(* C10: for every rig record the resolver returns the trimmed value of the   *)
(* first qualifying candidate, in the order: the seven keys of the rig, of   *)
(* rig.metadata, of rig.group, rig.groupName, rig.v4.mmv.workerName, the     *)
(* value of each rig.v4.osv entry, dsv.name of each rig.v4.devices entry,    *)
(* name of each rig.devices entry.                                           *)
C10_Precedence ==
    rpc = "done" /\ rig # None => ReturnsFirstQualifying

(* Whenever the call returns instead of raising, what it returns is the      *)
(* first qualifying candidate in the order of C10.                           *)
PrecedenceWhenReturns ==
    rpc = "done" /\ rig # None /\ ~IsRaise(result) => ReturnsFirstQualifying

(* A later candidate qualifies as well, and the earlier one is returned. *)
PrecedenceWitness ==
    /\ rpc = "done"
    /\ rig # None
    /\ ~IsRaise(result)
    /\ Cardinality(QualifyingPositions(rig)) >= 2
    /\ result = Str(strip(ClaimedCandidates(rig)[Min(QualifyingPositions(rig))].s))

(* The sentinels, and a value that is one of them after trimming, in any     *)
(* letter case                                                               *)
Sentinels ==
    { <<"_", "_", "D", "E", "F", "A", "U", "L", "T", "_", "_">>,
      <<"-", " ", "U", "N", "M", "A", "N", "A", "G", "E", "D", " ", "-">>,
      <<"U", "N", "M", "A", "N", "A", "G", "E", "D">> }

IsSentinel(v) ==
    v.t = "str" /\ \E p \in Sentinels : upper(strip(v.s)) = upper(p)

(* A sentinel stands before the first qualifying candidate, or no candidate  *)
(* qualifies and some candidate is a sentinel.                               *)
SentinelInTheWay(r) ==
    LET cs == ClaimedCandidates(r)
        q == QualifyingPositions(r)
    IN \E i \in 1..Len(cs) : IsSentinel(cs[i]) /\ (q # {} => i < Min(q))

PlaceholderFiltering ==
    /\ SentinelInTheWay(rig) /\ QualifyingPositions(rig) # {}
          => ReturnsFirstQualifying
    /\ IsSentinel(result) => /\ QualifyingPositions(rig) = {}
                             /\ result = Field(rig, "rigId")

(* C11: a candidate that is a sentinel (__DEFAULT__, - UNMANAGED -,          *)
(* UNMANAGED, trimmed, in any letter case) is skipped at every position and  *)
(* the next qualifying candidate is returned; a sentinel is returned only    *)
(* as the rigId fallback.                                                    *)
C11_PlaceholderSkipped ==
    rpc = "done" /\ rig # None => PlaceholderFiltering

(* Whenever the call returns instead of raising, sentinels are skipped as    *)
(* C11 says.                                                                 *)
PlaceholderSkippedWhenReturns ==
    rpc = "done" /\ rig # None /\ ~IsRaise(result) => PlaceholderFiltering

(* A sentinel before a name: the name is returned. *)
PlaceholderSkippedWitness ==
    /\ rpc = "done"
    /\ rig # None
    /\ ~IsRaise(result)
    /\ SentinelInTheWay(rig)
    /\ QualifyingPositions(rig) # {}
    /\ result = Str(strip(ClaimedCandidates(rig)[Min(QualifyingPositions(rig))].s))

(* The kinds C12 allows for a section or an entry: absent or null, a string, *)
(* a mapping, a sequence                                                     *)
LooseKind(v) == v.t \in {"None", "str", "dict", "list"}

AllLoose(seq) == \A i \in 1..Len(seq) : LooseKind(seq[i])

(* The record is one C12 speaks about. *)
LooselyStructured(r) ==
    /\ r.t = "dict"
    /\ LooseKind(Field(r, "metadata"))
    /\ LooseKind(Field(r, "group"))
    /\ LooseKind(Field(r, "v4"))
    /\ LooseKind(Field(Field(r, "v4"), "mmv"))
    /\ LooseKind(Field(Field(r, "v4"), "osv"))
    /\ LooseKind(Field(Field(r, "v4"), "devices"))
    /\ LooseKind(Field(r, "devices"))
    /\ AllLoose(EntriesOf(Field(Field(r, "v4"), "osv")))
    /\ AllLoose(EntriesOf(Field(Field(r, "v4"), "devices")))
    /\ AllLoose(EntriesOf(Field(r, "devices")))

(* C12: the resolver never fails: for None it returns None, and for every    *)
(* record whose sections and sequence entries are absent, null, a string, a  *)
(* mapping or a sequence it returns a value instead of raising.              *)
C12_Total ==
    rpc = "done" =>
        /\ rig = None => result = None
        /\ rig # None /\ LooselyStructured(rig) => ~IsRaise(result)

(* The call on None returns None. *)
NullInputGivesNull ==
    rpc = "done" /\ rig = None => result = None

NullInputWitness ==
    rpc = "done" /\ rig = None /\ result = None

(* C13: when no candidate qualifies the resolver returns rig.rigId as it is  *)
(* stored (not trimmed, not filtered, of any type), null when rigId is       *)
(* absent; when a candidate qualifies the rigId is not what is returned.     *)
C13_Fallback ==
    rpc = "done" /\ rig # None =>
        /\ QualifyingPositions(rig) = {} => result = Field(rig, "rigId")
        /\ QualifyingPositions(rig) # {} /\ Field(rig, "rigId") # None
              => result # Field(rig, "rigId")

(* Whenever the call returns instead of raising, the fallback is as C13 says. *)
FallbackWhenReturns ==
    rpc = "done" /\ rig # None /\ ~IsRaise(result) =>
        /\ QualifyingPositions(rig) = {} => result = Field(rig, "rigId")
        /\ QualifyingPositions(rig) # {} /\ Field(rig, "rigId") # None
              => result # Field(rig, "rigId")

(* No candidate qualifies and a rigId with white space around it, a rigId    *)
(* that is a sentinel or a rigId that is a number comes back as it is.       *)
FallbackWitness ==
    /\ rpc = "done"
    /\ rig # None
    /\ QualifyingPositions(rig) = {}
    /\ result = Field(rig, "rigId")
    /\ \/ result.t = "int"
       \/ result.t = "str" /\ (IsSentinel(result) \/ strip(result.s) # result.s)

(* A value that is present and is no string, or is blank after trimming *)
Unfit(v) ==
    \/ v.t \in {"int", "dict", "list"}
    \/ v.t = "str" /\ Len(strip(v.s)) = 0

(* Such a value stands before the first qualifying candidate. *)
UnfitInTheWay(r) ==
    LET cs == ClaimedCandidates(r)
        q == QualifyingPositions(r)
    IN q # {} /\ \E i \in 1..Len(cs) : Unfit(cs[i]) /\ i < Min(q)

TrimmedNonEmpty(v) ==
    v.t = "str" /\ Len(v.s) > 0 /\ strip(v.s) = v.s

Qualification ==
    /\ UnfitInTheWay(rig) => ReturnsFirstQualifying
    /\ QualifyingPositions(rig) # {} /\ ~IsRaise(result) => TrimmedNonEmpty(result)

(* C14: at every position a candidate that is not a string, or is empty      *)
(* after trimming, is skipped and the next candidate is tried; a result      *)
(* taken from a candidate position is a non-empty string without leading or  *)
(* trailing white space.                                                     *)
C14_Qualification ==
    rpc = "done" /\ rig # None => Qualification

(* Whenever the call returns instead of raising, candidates qualify as C14   *)
(* says.                                                                     *)
QualificationWhenReturns ==
    rpc = "done" /\ rig # None /\ ~IsRaise(result) => Qualification

(* A number or a blank string before a name with white space around it: the  *)
(* trimmed name is returned.                                                 *)
QualificationWitness ==
    /\ rpc = "done"
    /\ rig # None
    /\ UnfitInTheWay(rig)
    /\ TrimmedNonEmpty(result)
    /\ LET c == ClaimedCandidates(rig)[Min(QualifyingPositions(rig))]
       IN c.s # result.s /\ strip(c.s) = result.s

(* The record r without the key k *)
WithoutKey(r, k) == Dict([x \in DOMAIN r.d \ {k} |-> r.d[x]])

(* group is present and is no mapping. *)
GroupNotMapping(r) ==
    r.t = "dict" /\ "group" \in DOMAIN r.d /\ r.d["group"].t # "dict"

(* C16: when rig.group is present and is not a mapping, the group location   *)
(* contributes no candidate and no error: the call gives what it gives for   *)
(* the same record without group.                                            *)
C16_GroupNotMappingIgnored ==
    rpc = "done" /\ GroupNotMapping(rig) =>
        result = resolve_rig_name(WithoutKey(rig, "group"))

(* group is a non-empty string, a non-empty sequence or a number, and a name *)
(* from another location is returned.                                        *)
C16_Witness ==
    /\ rpc = "done"
    /\ GroupNotMapping(rig)
    /\ rig.d["group"].t \in {"str", "list", "int"}
    /\ Truthy(rig.d["group"])
    /\ ~IsRaise(result)
    /\ result # None

(* The statements that build candidates, with one of them appending nothing *)
WithoutStep(steps, k) ==
    [i \in 1..Len(steps) |-> IF i = k THEN Values(<<>>) ELSE steps[i]]

(* The place of the second probe of rig.groupName among the statements *)
SecondProbeStep ==
    CHOOSE k \in 1..Len(CandidateSteps(EmptyDict)) :
        \A r \in {Dict("groupName" :> Str(<<"g">>)), EmptyDict} :
            /\ CandidateSteps(r)[k] = SecondGroupNameProbe(r)
            /\ Len(CandidateSteps(r)[k].items) = 1

(* The resolver without the second probe of rig.groupName *)
ResolveWithoutSecondProbe(r) ==
    IF ~Truthy(r) THEN None
    ELSE Select(r, WithoutStep(CandidateSteps(r), SecondProbeStep))

(* C19: the second probe of rig.groupName, after the group location, is      *)
(* redundant: for every rig record the resolver gives what it gives with     *)
(* that candidate removed.                                                   *)
C19_SecondProbeRedundant ==
    rpc = "done" => result = ResolveWithoutSecondProbe(rig)

(* The top-level groupName is a name and is what the call returns, its       *)
(* second probe qualifies too, and so does a candidate after it.             *)
C19_Witness ==
    /\ rpc = "done"
    /\ rig # None
    /\ Qualifies(Field(rig, "groupName"))
    /\ result = Str(strip(Field(rig, "groupName").s))
    /\ Cardinality(QualifyingPositions(rig)) >= 3
    /\ Len(candidates(rig)) = Len(CandidatesOf(WithoutStep(CandidateSteps(rig), SecondProbeStep))) + 1

====
